---- MODULE Spec2Model ----
(***************************************************************************)
(* cloud-nuke: the batched-destruction engine of the AWS path              *)
(* (aws.split, aws.GetAllResources, aws.NukeAllResources, commands.awsNuke)*)
(* and the instance listing of the GCP path (gcp.GetAllGceInstances,       *)
(* commands.parseDurationParam).                                           *)
(*                                                                         *)
(* Six specifications share the variables:                                 *)
(*   SpecSplit    applies split to bounded identifier lists and limits;    *)
(*   SpecGce      runs gcpNuke: parseDurationParam, GetAllGceInstances,    *)
(*                the gate, NukeAllResources;                              *)
(*   Spec         runs awsNuke: GetEnabledRegions, GetAllResources, the    *)
(*                gate, NukeAllResources;                                  *)
(*   SpecRegions  runs GetEnabledRegions for accounts that have disabled   *)
(*                default regions;                                         *)
(*   SpecNuke     runs either command;                                     *)
(*   SpecLive     runs awsNuke with one identifier per batch, under weak   *)
(*                fairness of the steps of NukeAllResources.               *)
(***************************************************************************)
EXTENDS Integers, Sequences, FiniteSets, TLC

VARIABLES
  pc,            \* the position of the running command
  cmdRet,        \* what the command (gcpNuke, awsNuke) returned, "none" while it runs
  sIdentifiers,  \* SpecSplit: the identifier list handed to split
  sLimit,        \* SpecSplit: the limit handed to split
  sChunks,       \* SpecSplit: the batches split returned
  excludedRegions, \* the --exclude-region flag, once read
  olderThan,     \* the --older-than flag, once read
  excludeAfter,  \* the cutoff parseDurationParam returned
  gApi,          \* SpecGce: apiInstances.Items as AggregatedList returned it
  gTodo,         \* SpecGce: per scope, the instances the loops have not visited
  gCur,          \* SpecGce: the scope (map key) the outer loop is at
  gInstances,    \* SpecGce: the local slice `instances`
  gRet,          \* SpecGce: what GetAllGceInstances returned
  maxBatchSize,  \* Spec: MaxBatchSize() of every resource type
  resourceTypes, \* Spec: the --resource-type flag, once read
  force,         \* the --force flag, once read
  proceed,       \* what the confirmation prompt returned
  input,         \* what the operator typed at the prompt, NoInput when not asked
  countdown,     \* the seconds left of the --force countdown, 0 when none runs
  disabledDefaults, \* Spec: the default-enabled regions this account has disabled
  probes,        \* the DescribeRegions probes retryDescribeRegions has made
  probeRegion,   \* retryDescribeRegions' local region: the one probed last, "" outside the loop
  regions,       \* Spec: the regions GetEnabledRegions returned
  account,       \* Spec: GetAllResources' local account.Resources
  li,            \* Spec: GetAllResources' position in regions
  lt,            \* Spec: the next resource-type block of GetAllResources
  resourcesInRegion, \* Spec: GetAllResources' local resourcesInRegion.Resources
  listCalls,     \* Spec: the list calls issued, as <<region, type>>
  inventory,     \* Spec: what GetAllResources returned to awsNuke
  summary,       \* the lines the command printed, as <<type, identifier, region>>
  ni,            \* Spec: NukeAllResources' position in regions
  ne,            \* Spec: NukeAllResources' position in the region's resources
  batches,       \* Spec: NukeAllResources' local batches
  bi,            \* Spec: NukeAllResources' batch index i
  deleteCalls,   \* the delete (Nuke) calls issued, in order
  nukeRet        \* what NukeAllResources returned, "none" before

splitVars == <<sIdentifiers, sLimit, sChunks>>
gceVars == <<gApi, gTodo, gCur, gInstances, gRet>>
flagVars == <<excludedRegions, olderThan, excludeAfter>>
awsFlagVars == <<resourceTypes, force, proceed>>
gateVars == <<input, countdown>>
probeVars == <<probes, probeRegion>>
listVars == <<account, li, lt, resourcesInRegion, listCalls, inventory>>
nukeVars == <<ni, ne, batches, bi, deleteCalls, nukeRet>>
awsVars == <<maxBatchSize, gateVars, awsFlagVars, disabledDefaults, probeVars, regions,
             listVars, summary, nukeVars>>
vars == <<pc, cmdRet, splitVars, flagVars, gceVars, awsVars>>

(***************************************************************************)
(* Bounds of the model.                                                    *)
(***************************************************************************)
\* longest identifier list handed to split in SpecSplit
MaxLen == 4
\* largest absolute value of the limit handed to split in SpecSplit
MaxLimit == 3
\* most instances AggregatedList returns in SpecGce
MaxInstances == 2
\* most identifiers the list calls of one awsNuke run return altogether
MaxIds == 3

(***************************************************************************)
(* Shared helpers.                                                         *)
(***************************************************************************)
\* collections.ListContainsElement: membership of an element in a list
ListContainsElement(list, element) ==
  \E k \in 1..Len(list) : list[k] = element

RECURSIVE Concat(_)
\* the concatenation, in order, of a list of lists
Concat(ss) ==
  IF ss = <<>> THEN <<>> ELSE Head(ss) \o Concat(Tail(ss))

\* the identifier lists of length 0..n over the alphabet S
SeqsUpTo(S, n) ==
  UNION { [1..k -> S] : k \in 0..n }

(***************************************************************************)
(* aws.split (src/aws/aws.go:100-118).                                     *)
(***************************************************************************)
RECURSIVE splitLoop(_, _, _)
\* the chunking loop and the trailing remainder (aws.go:107-117)
splitLoop(identifiers, limit, chunks) ==
  IF Len(identifiers) >= limit
  THEN splitLoop(SubSeq(identifiers, limit + 1, Len(identifiers)), limit,
                 Append(chunks, SubSeq(identifiers, 1, limit)))
  ELSE IF Len(identifiers) > 0
       THEN Append(chunks, identifiers)
       ELSE chunks

RECURSIVE splitLoopDropTail(_, _, _)
\* faulty variant: the remainder shorter than limit is dropped
splitLoopDropTail(identifiers, limit, chunks) ==
  IF Len(identifiers) >= limit
  THEN splitLoopDropTail(SubSeq(identifiers, limit + 1, Len(identifiers)), limit,
                         Append(chunks, SubSeq(identifiers, 1, limit)))
  ELSE chunks

\* faulty variant of split: loses the last, short batch
splitDropTail(identifiers, limit) ==
  IF limit = 0
  THEN <<identifiers>>
  ELSE splitLoopDropTail(identifiers, IF limit < 0 THEN -1 * limit ELSE limit, <<>>)

\* faulty variant of split: a negative limit means "no batching", like zero
splitNegativeUnlimited(identifiers, limit) ==
  IF limit <= 0
  THEN <<identifiers>>
  ELSE splitLoop(identifiers, limit, <<>>)

\* faulty variant of split: batches one identifier longer than the limit
splitOffByOne(identifiers, limit) ==
  IF limit = 0
  THEN <<identifiers>>
  ELSE splitLoop(identifiers, (IF limit < 0 THEN -1 * limit ELSE limit) + 1, <<>>)

\* split(identifiers, limit): a negative limit is replaced by its absolute
\* value, limit 0 returns the whole list as one batch (aws.go:100-118)
split(identifiers, limit) ==
  IF limit = 0
  THEN <<identifiers>>
  ELSE splitLoop(identifiers, IF limit < 0 THEN -1 * limit ELSE limit, <<>>)

(***************************************************************************)
(* SpecSplit: split applied to every identifier list of at most MaxLen     *)
(* identifiers and every limit in -MaxLimit..MaxLimit.                     *)
(***************************************************************************)
\* the identifiers of SpecSplit's lists (a list may repeat one)
SplitIds == {"i1", "i2"}

\* the values of the variables a specification does not use
NoInstances == <<>>
NoRet == [returned |-> FALSE, instances |-> <<>>, err |-> "nil"]

GceIdle ==
  /\ gApi = <<>>
  /\ gTodo = <<>>
  /\ gCur = ""
  /\ gInstances = NoInstances
  /\ gRet = NoRet

\* no flag has been read yet
NoDuration == <<0, "">>
FlagsUnread ==
  /\ excludedRegions = <<>>
  /\ olderThan = NoDuration
  /\ excludeAfter = 0

\* the empty Go map
EmptyMap == [r \in {} |-> <<>>]
NoInventory == [isNil |-> TRUE, Resources |-> EmptyMap]

\* the operator was not asked
NoInput == "<none>"

AwsIdle ==
  /\ resourceTypes = <<>>
  /\ force = FALSE
  /\ proceed = FALSE
  /\ input = NoInput
  /\ countdown = 0
  /\ probes = 0
  /\ probeRegion = ""
  /\ regions = <<>>
  /\ account = EmptyMap
  /\ li = 0
  /\ lt = 0
  /\ resourcesInRegion = <<>>
  /\ listCalls = {}
  /\ inventory = NoInventory
  /\ summary = {}
  /\ ni = 0
  /\ ne = 0
  /\ batches = <<>>
  /\ bi = 0
  /\ deleteCalls = <<>>
  /\ nukeRet = "none"

SplitIdle ==
  /\ sIdentifiers = <<>>
  /\ sLimit = 0
  /\ sChunks = <<>>

InitSplit ==
  /\ pc = "split"
  /\ cmdRet = "none"
  /\ sIdentifiers \in SeqsUpTo(SplitIds, MaxLen)
  /\ sLimit \in (0 - MaxLimit)..MaxLimit
  /\ sChunks = <<>>
  /\ FlagsUnread
  /\ GceIdle
  /\ AwsIdle
  /\ maxBatchSize = <<>>
  /\ disabledDefaults = {}

\* one call of split (aws.go:100-118)
CallSplit ==
  /\ pc = "split"
  /\ sChunks' = split(sIdentifiers, sLimit)
  /\ pc' = "splitDone"
  /\ UNCHANGED <<cmdRet, sIdentifiers, sLimit, flagVars, gceVars, awsVars>>

NextSplit == CallSplit

SpecSplit == InitSplit /\ [][NextSplit]_vars

(***************************************************************************)
(* Time: seconds.  commands.parseDurationParam (src/commands/cli.go:93-104) *)
(***************************************************************************)
Hour == 60 * 60

\* time.Now() when the run starts
Now == 100 * Hour

\* the units time.ParseDuration accepts, in seconds (whole-second units only)
UnitSeconds(unit) ==
  CASE unit = "s" -> 1
    [] unit = "m" -> 60
    [] unit = "h" -> Hour

\* time.ParseDuration on <<count, unit>>: "d" is no unit of a Go duration
ParseDuration(paramValue) ==
  IF paramValue[2] \in {"s", "m", "h"}
  THEN [ok |-> TRUE, d |-> paramValue[1] * UnitSeconds(paramValue[2])]
  ELSE [ok |-> FALSE, d |-> 0]

\* faulty variant: the duration is added to now instead of subtracted
parseDurationParamForward(paramValue) ==
  LET parsed == ParseDuration(paramValue)
  IN  IF ~parsed.ok
      THEN [err |-> "invalid duration", excludeAfter |-> 0]
      ELSE [err |-> "nil", excludeAfter |-> Now + parsed.d]

\* faulty variant: a string that does not parse counts as no duration
parseDurationParamLenient(paramValue) ==
  LET parsed == ParseDuration(paramValue)
  IN  [err |-> "nil", excludeAfter |-> Now + ((-1 * parsed.d))]

\* parseDurationParam: excludeAfter = now + (-1 * duration) (cli.go:93-104)
parseDurationParam(paramValue) ==
  LET parsed == ParseDuration(paramValue)
  IN  IF ~parsed.ok
      THEN [err |-> "invalid duration", excludeAfter |-> 0]
      ELSE [err |-> "nil", excludeAfter |-> Now + ((-1 * parsed.d))]

\* the --older-than values the operator may give
DurationParams == {<<0, "s">>, <<24, "h">>, <<1440, "m">>, <<1, "d">>}

(***************************************************************************)
(* gcp.GetAllGceInstances (src/unnamed/part_000).                          *)
(* A URL is the list of its "/"-separated segments; an RFC 3339 timestamp  *)
(* is its local time and its zone offset, or does not parse.               *)
(***************************************************************************)
ZoneUrl(z) == <<"projects", "p", "zones", z>>

\* ctx.Regions: r1 holds zone z1, r2 holds zone z2; zone z9 is in no region
GcpRegions ==
  << [Name |-> "r1", Zones |-> <<ZoneUrl("z1")>>],
     [Name |-> "r2", Zones |-> <<ZoneUrl("z2")>>] >>

GcpZones == {"z1", "z2", "z9"}

\* zoneFromUrl: the last segment of the URL (part_000:9-15); strings.Split
\* never returns an empty slice, so the error branch is never taken
zoneFromUrl(url) ==
  IF Len(url) = 0
  THEN [err |-> "got invalid zone url", zone |-> ""]
  ELSE [err |-> "nil", zone |-> url[Len(url)]]

\* regionFromZone: the first region of ctx.Regions with that zone (part_000:17-31)
regionFromZone(zone) ==
  LET hits == { r \in 1..Len(GcpRegions) :
                  \E z \in 1..Len(GcpRegions[r].Zones) :
                     zoneFromUrl(GcpRegions[r].Zones[z]).zone = zone }
  IN  IF hits = {}
      THEN [err |-> "could not get region for zone", region |-> ""]
      ELSE [err |-> "nil", region |-> GcpRegions[CHOOSE r \in hits : \A q \in hits : r <= q].Name]

\* time.Parse(time.RFC3339, s): the instant is the local time minus the offset
TimeParse(ts) ==
  IF ts.valid
  THEN [err |-> "nil", t |-> ts.local - ts.off]
  ELSE [err |-> "parsing time", t |-> 0]

\* faulty variant of After: at the cutoff counts as after it
AfterOrEqual(t, u) == t >= u

\* time.Time.After
After(t, u) == t > u

RECURSIVE excludedRegionLoop(_, _, _)
\* part_000:58-63: the loop over excludedRegions.  Its `continue` continues
\* this inner loop; whether a region matched or not, the loop runs to its end
\* and control falls through to line 65.  TRUE would mean "instance skipped".
excludedRegionLoop(region, excluded, k) ==
  IF k > Len(excluded)
  THEN FALSE
  ELSE IF region = excluded[k]
       THEN excludedRegionLoop(region, excluded, k + 1)
       ELSE excludedRegionLoop(region, excluded, k + 1)

\* faulty variant: a protected instance is not skipped
skipProtectedNever(apiInstance) == FALSE

\* part_000:43-46: skip if deletion protection is turned on
skipProtected(apiInstance) == apiInstance.DeletionProtection

NoGceInstance == [InstanceName |-> 0, Zone |-> "", RegionName |-> ""]

\* one iteration of the inner loop (part_000:42-81): "skip" (continue),
\* "error" (return nil, err) or "append"
gceLoopBody(apiInstance, excluded, cutoff) ==
  LET z == zoneFromUrl(apiInstance.Zone)
      r == regionFromZone(z.zone)
      c == TimeParse(apiInstance.CreationTimestamp)
  IN  IF skipProtected(apiInstance)
      THEN [kind |-> "skip", err |-> "nil", instance |-> NoGceInstance]
      ELSE IF z.err # "nil"
      THEN [kind |-> "error", err |-> z.err, instance |-> NoGceInstance]
      ELSE IF r.err # "nil"
      THEN [kind |-> "error", err |-> r.err, instance |-> NoGceInstance]
      ELSE IF excludedRegionLoop(r.region, excluded, 1)
      THEN [kind |-> "skip", err |-> "nil", instance |-> NoGceInstance]
      ELSE IF c.err # "nil"
      THEN [kind |-> "error", err |-> c.err, instance |-> NoGceInstance]
      ELSE IF After(c.t, cutoff)
      THEN [kind |-> "skip", err |-> "nil", instance |-> NoGceInstance]
      ELSE [kind |-> "append", err |-> "nil",
            instance |-> [InstanceName |-> apiInstance.Name, Zone |-> z.zone,
                          RegionName |-> r.region]]

\* the creation timestamps of the provider's instances: 48 h, 24 h and 1 h
\* ago in UTC, 23 h ago written in a zone two hours behind UTC, and one
\* that does not parse
Timestamps ==
  { [valid |-> TRUE, local |-> Now - 48 * Hour, off |-> 0],
    [valid |-> TRUE, local |-> Now - 24 * Hour, off |-> 0],
    [valid |-> TRUE, local |-> Now - Hour, off |-> 0],
    [valid |-> TRUE, local |-> Now - 25 * Hour, off |-> 0 - 2 * Hour],
    [valid |-> FALSE, local |-> 0, off |-> 0] }

\* the attributes of one instance the provider holds
ApiAttributes == [zone : GcpZones, prot : BOOLEAN, ts : Timestamps]

\* what AggregatedList returns for the attributes f of n instances, named 1..n
ApiInstanceList(f, n) ==
  [k \in 1..n |-> [Name |-> k, Zone |-> ZoneUrl(f[k].zone),
                   DeletionProtection |-> f[k].prot,
                   CreationTimestamp |-> f[k].ts]]

RECURSIVE SelectSeq2(_, _)
\* the instances of api whose zone is z, in api's order
SelectSeq2(api, z) ==
  IF api = <<>> THEN <<>>
  ELSE IF zoneFromUrl(Head(api).Zone).zone = z
       THEN <<Head(api)>> \o SelectSeq2(Tail(api), z)
       ELSE SelectSeq2(Tail(api), z)

\* apiInstances.Items: a map from scope (one per zone) to its instances
ItemsOf(api) == [z \in GcpZones |-> SelectSeq2(api, z)]

\* the --exclude-region values of gcpNuke; rX is no region of the project
GcpExcludeChoices == {<<>>, <<"r1">>, <<"r2", "r1">>, <<"rX">>}

\* ctx.ContainsRegion, reached through regionIsValid (cli.go:132-134)
regionIsValid(region) ==
  \E r \in 1..Len(GcpRegions) : GcpRegions[r].Name = region

InitGce ==
  /\ pc = "gcpNuke"
  /\ cmdRet = "none"
  /\ SplitIdle
  /\ FlagsUnread
  /\ GceIdle
  /\ AwsIdle
  /\ maxBatchSize = <<>>
  /\ disabledDefaults = {}

\* gcpNuke reads and validates --exclude-region (cli.go:146-155)
GcpValidateExcludedRegions ==
  /\ pc = "gcpNuke"
  /\ \E ex \in GcpExcludeChoices :
       /\ excludedRegions' = ex
       /\ IF \E k \in 1..Len(ex) : ~regionIsValid(ex[k])
          THEN pc' = "done" /\ cmdRet' = "InvalidFlagError"
          ELSE pc' = "gcpParseDuration" /\ cmdRet' = cmdRet
  /\ UNCHANGED <<splitVars, olderThan, excludeAfter, gceVars, awsVars>>

\* gcpNuke parses --older-than (cli.go:157-160)
GcpParseDuration ==
  /\ pc = "gcpParseDuration"
  /\ \E p \in DurationParams :
       LET r == parseDurationParam(p)
       IN  /\ olderThan' = p
           /\ IF r.err # "nil"
              THEN pc' = "done" /\ cmdRet' = r.err /\ excludeAfter' = excludeAfter
              ELSE pc' = "GetAllGceInstances" /\ cmdRet' = cmdRet
                   /\ excludeAfter' = r.excludeAfter
  /\ UNCHANGED <<splitVars, excludedRegions, gceVars, awsVars>>

\* GetAllGceInstances calls AggregatedList (part_000:34-39)
GceAggregatedList ==
  /\ pc = "GetAllGceInstances"
  /\ \/ /\ gRet' = [returned |-> TRUE, instances |-> <<>>, err |-> "AggregatedList failed"]
        /\ pc' = "gceReturned"
        /\ UNCHANGED <<gApi, gTodo, gCur, gInstances>>
     \/ \E n \in 0..MaxInstances :
          \E f \in [1..n -> ApiAttributes] :
            /\ gApi' = ApiInstanceList(f, n)
            /\ gTodo' = ItemsOf(ApiInstanceList(f, n))
            /\ pc' = "gceLoop"
            /\ UNCHANGED <<gCur, gInstances, gRet>>
  /\ UNCHANGED <<cmdRet, splitVars, flagVars, awsVars>>

\* one iteration of the loops over apiInstances.Items (part_000:41-82); the
\* order of a Go map's keys is not specified, so the next scope is any one
\* not yet visited
GceVisitInstance ==
  /\ pc = "gceLoop"
  /\ \E s \in GcpZones :
       /\ gTodo[s] # <<>>
       /\ (gCur # "" /\ gTodo[gCur] # <<>>) => s = gCur
       /\ LET b == gceLoopBody(Head(gTodo[s]), excludedRegions, excludeAfter)
          IN  /\ gCur' = s
              /\ gTodo' = [gTodo EXCEPT ![s] = Tail(@)]
              /\ IF b.kind = "error"
                 THEN /\ gRet' = [returned |-> TRUE, instances |-> <<>>, err |-> b.err]
                      /\ pc' = "gceReturned"
                      /\ gInstances' = gInstances
                 ELSE /\ gInstances' = IF b.kind = "append"
                                       THEN Append(gInstances, b.instance)
                                       ELSE gInstances
                      /\ UNCHANGED <<gRet, pc>>
  /\ UNCHANGED <<cmdRet, splitVars, flagVars, gApi, awsVars>>

\* the loops are over: return instances, nil (part_000:84)
GceReturn ==
  /\ pc = "gceLoop"
  /\ \A s \in GcpZones : gTodo[s] = <<>>
  /\ gRet' = [returned |-> TRUE, instances |-> gInstances, err |-> "nil"]
  /\ pc' = "gceReturned"
  /\ UNCHANGED <<cmdRet, splitVars, flagVars, gApi, gTodo, gCur, gInstances, awsVars>>

(***************************************************************************)
(* The AWS path: the registry of resource types.                           *)
(***************************************************************************)
\* faulty variant: EC2 instances come before auto-scaling groups
ResourceOrderInstancesFirst ==
  <<"ec2", "lc", "elb", "elbv2", "asg", "ebs", "eip", "ami", "snap", "ecsserv",
    "ekscluster">>

\* the resource types in the order of GetAllResources' blocks (aws.go:147-286)
ResourceOrder ==
  <<"asg", "lc", "elb", "elbv2", "ec2", "ebs", "eip", "ami", "snap", "ecsserv",
    "ekscluster">>

ResourceTypeNames == { ResourceOrder[k] : k \in 1..Len(ResourceOrder) }

\* ListResourceTypes: the names, sorted by sort.Strings (aws.go:296-313)
ListResourceTypes ==
  <<"ami", "asg", "ebs", "ec2", "ecsserv", "eip", "ekscluster", "elb", "elbv2",
    "lc", "snap">>

\* faulty variant: every name is taken for a registered type
IsValidResourceTypeAny(resourceType, allResourceTypes) == TRUE

\* IsValidResourceType (aws.go:315-318)
IsValidResourceType(resourceType, allResourceTypes) ==
  ListContainsElement(allResourceTypes, resourceType)

\* faulty variant of IsNukeable: an empty filter selects nothing
IsNukeableNamedOnly(resourceType, types) ==
  \/ ListContainsElement(types, "all")
  \/ ListContainsElement(types, resourceType)

\* IsNukeable (aws.go:320-328)
IsNukeable(resourceType, types) ==
  \/ Len(types) = 0
  \/ ListContainsElement(types, "all")
  \/ ListContainsElement(types, resourceType)

\* eksSupportedRegion: EKS is offered in us-east-1 and not in sa-east-1
eksSupportedRegion(region) == region = "us-east-1"

\* the MaxBatchSize() tables a run may have: the sizes are 2, or 1, for every
\* type but ec2, whose size is 0 in the first table and -2 in the second
BatchProfiles ==
  { [t \in ResourceTypeNames |-> IF t = "ec2" THEN 0 ELSE 2],
    [t \in ResourceTypeNames |-> IF t = "ec2" THEN 0 - 2 ELSE 1] }

\* resources.MaxBatchSize()
MaxBatchSize(resourceType) == maxBatchSize[resourceType]

\* the --resource-type values of awsNuke
TypeFilterChoices ==
  {<<>>, <<"all">>, <<"ec2">>, <<"ekscluster", "asg">>, <<"ec2", "bogus">>}

\* the --exclude-region values of awsNuke; mars-1 is no enabled region
AwsExcludeChoices ==
  {<<>>, <<"sa-east-1">>, <<"us-east-1">>, <<"us-east-1", "sa-east-1">>, <<"mars-1">>}

\* the --older-than values of awsNuke: the default and one that does not parse
AwsDurationParams == {<<0, "s">>, <<1, "d">>}

\* the resource types the account holds resources of; the list call of any
\* other type returns no identifier
PopulatedTypes == {"asg", "ec2", "ekscluster"}

(***************************************************************************)
(* aws.GetEnabledRegions (aws.go:18-87).                                   *)
(***************************************************************************)
OptInNotRequiredRegions ==
  <<"eu-north-1", "ap-south-1", "eu-west-3", "eu-west-2", "eu-west-1",
    "ap-northeast-2", "ap-northeast-1", "sa-east-1", "ca-central-1",
    "ap-southeast-1", "ap-southeast-2", "eu-central-1", "us-east-1",
    "us-east-2", "us-west-1", "us-west-2">>

OptInSet == { OptInNotRequiredRegions[k] : k \in 1..Len(OptInNotRequiredRegions) }

\* the accounts of the model: no default region disabled, or all of them
DisabledDefaultChoices == { {}, OptInSet }

\* what DescribeRegions answers: the enabled regions, in either order
EnabledRegionLists ==
  { <<"us-east-1", "sa-east-1">>, <<"sa-east-1", "us-east-1">> }

(***************************************************************************)
(* commands.awsNuke up to the inventory (cli.go:199-250).                  *)
(***************************************************************************)
InitAws ==
  /\ pc = "awsNuke"
  /\ cmdRet = "none"
  /\ SplitIdle
  /\ FlagsUnread
  /\ GceIdle
  /\ AwsIdle
  /\ maxBatchSize \in BatchProfiles
  /\ disabledDefaults \in DisabledDefaultChoices

\* faulty variant: no name of the filter is found invalid
invalidresourceTypesNone(types) == <<>>

\* the names of the filter that are neither "all" nor a registered type
invalidresourceTypes(types) ==
  SelectSeq(types, LAMBDA t : t # "all" /\ ~IsValidResourceType(t, ListResourceTypes))

\* --list-resource-types prints the types and returns (cli.go:202-207)
AwsListResourceTypes ==
  /\ pc = "awsNuke"
  /\ pc' = "done"
  /\ cmdRet' = "nil"
  /\ UNCHANGED <<splitVars, flagVars, gceVars, awsVars>>

\* awsNuke reads and validates --resource-type (cli.go:209-223)
AwsValidateResourceTypes ==
  /\ pc = "awsNuke"
  /\ \E types \in TypeFilterChoices :
       /\ resourceTypes' = types
       /\ IF Len(invalidresourceTypes(types)) > 0
          THEN pc' = "done" /\ cmdRet' = "Invalid resourceTypes"
          ELSE pc' = "GetEnabledRegions" /\ cmdRet' = cmdRet
  /\ UNCHANGED <<splitVars, flagVars, gceVars, maxBatchSize, gateVars, force, proceed,
                 disabledDefaults, probeVars, regions, listVars, summary, nukeVars>>

\* one iteration of retryDescribeRegions' loop: a region of the default list
\* is drawn by rand.Intn and probed; an error continues the loop, an answer
\* is returned and GetEnabledRegions hands its region names to awsNuke
\* (aws.go:55-63, 77-86)
RetryDescribeRegions ==
  /\ pc = "GetEnabledRegions"
  /\ probes < Len(OptInNotRequiredRegions)
  /\ \E k \in 1..Len(OptInNotRequiredRegions) :
       LET region == OptInNotRequiredRegions[k]
       IN  /\ probes' = probes + 1
           /\ IF region \in disabledDefaults
              THEN /\ probeRegion' = region
                   /\ UNCHANGED <<pc, regions>>
              ELSE /\ \E rs \in EnabledRegionLists : regions' = rs
                   /\ probeRegion' = ""
                   /\ pc' = "awsExcludeRegions"
  /\ UNCHANGED <<cmdRet, splitVars, flagVars, gceVars, maxBatchSize, gateVars, awsFlagVars,
                 disabledDefaults, listVars, summary, nukeVars>>

\* every iteration failed: "could not find any enabled regions" (aws.go:64,
\* 78-80, cli.go:226-228)
RetryDescribeRegionsExhausted ==
  /\ pc = "GetEnabledRegions"
  /\ probes >= Len(OptInNotRequiredRegions)
  /\ pc' = "done"
  /\ cmdRet' = "could not find any enabled regions"
  /\ probeRegion' = ""
  /\ UNCHANGED <<splitVars, flagVars, gceVars, maxBatchSize, gateVars, awsFlagVars,
                 disabledDefaults, probes, regions, listVars, summary, nukeVars>>

\* awsNuke reads and validates --exclude-region (cli.go:229-238)
AwsValidateExcludedRegions ==
  /\ pc = "awsExcludeRegions"
  /\ \E ex \in AwsExcludeChoices :
       /\ excludedRegions' = ex
       /\ IF \E k \in 1..Len(ex) : ~ListContainsElement(regions, ex[k])
          THEN pc' = "done" /\ cmdRet' = "InvalidFlagError"
          ELSE pc' = "awsParseDuration" /\ cmdRet' = cmdRet
  /\ UNCHANGED <<splitVars, olderThan, excludeAfter, gceVars, awsVars>>

\* awsNuke parses --older-than (cli.go:240-245)
AwsParseDuration ==
  /\ pc = "awsParseDuration"
  /\ \E p \in AwsDurationParams :
       LET r == parseDurationParam(p)
       IN  /\ olderThan' = p
           /\ IF r.err # "nil"
              THEN /\ pc' = "done" /\ cmdRet' = r.err
                   /\ UNCHANGED <<excludeAfter, li>>
              ELSE /\ pc' = "GetAllResources" /\ cmdRet' = cmdRet
                   /\ excludeAfter' = r.excludeAfter
                   /\ li' = 1
  /\ UNCHANGED <<splitVars, excludedRegions, gceVars, maxBatchSize, gateVars, awsFlagVars,
                 disabledDefaults, probeVars, regions, account, lt, resourcesInRegion,
                 listCalls, inventory, summary, nukeVars>>

(***************************************************************************)
(* aws.GetAllResources (aws.go:120-294).                                   *)
(***************************************************************************)
\* m[key] of a Go map: the zero value when the key is absent
MapGet(m, key) == IF key \in DOMAIN m THEN m[key] ELSE <<>>

\* m[key] = value
MapPut(m, key, value) ==
  [k \in DOMAIN m \cup {key} |-> IF k = key THEN value ELSE m[k]]

RECURSIVE CountIds(_)
\* the identifiers held by a list of resources
CountIds(resources) ==
  IF resources = <<>> THEN 0
  ELSE Len(Head(resources).ids) + CountIds(Tail(resources))

\* the identifiers the list calls of this run have returned so far
IdsListed ==
  LET RECURSIVE Sum(_)
      Sum(R) == IF R = {} THEN 0
                ELSE LET r == CHOOSE x \in R : TRUE
                     IN  CountIds(account[r]) + Sum(R \ {r})
  IN  Sum(DOMAIN account) + CountIds(resourcesInRegion)

\* the identifiers a list call returns when it finds k resources
Identifiers(k) == [j \in 1..k |-> j]

\* faulty variant: the failure hands back what was listed before it
ListFailsPartial(err) ==
  /\ pc' = "done"
  /\ cmdRet' = err
  /\ inventory' = [isNil |-> FALSE, Resources |-> account]
  /\ UNCHANGED <<account, li, lt, resourcesInRegion>>

\* GetAllResources returns nil and the error, which awsNuke returns
\* (aws.go:139, 152, ..., 279; cli.go:248-250)
ListFails(err) ==
  /\ pc' = "done"
  /\ cmdRet' = err
  /\ UNCHANGED <<account, li, lt, resourcesInRegion, inventory>>

\* faulty variant: only the first excluded region is compared
skipRegionFirstOnly(region) ==
  Len(excludedRegions) > 0 /\ excludedRegions[1] = region

\* aws.go:128: ignore all cli excluded regions
skipRegion(region) == ListContainsElement(excludedRegions, region)

\* the head of the loop over regions: an excluded region is skipped, a
\* session is created for any other (aws.go:126-142)
ListRegion ==
  /\ pc = "GetAllResources"
  /\ li <= Len(regions)
  /\ IF skipRegion(regions[li])
     THEN /\ li' = li + 1
          /\ UNCHANGED <<pc, cmdRet, account, lt, resourcesInRegion, inventory>>
     ELSE \/ ListFails("session error")
          \/ /\ resourcesInRegion' = <<>>
             /\ lt' = 1
             /\ pc' = "listTypes"
             /\ UNCHANGED <<cmdRet, account, li, inventory>>
  /\ UNCHANGED <<splitVars, flagVars, gceVars, maxBatchSize, gateVars, awsFlagVars,
                 disabledDefaults, probeVars, regions, listCalls, summary, nukeVars>>

\* faulty variant: the EKS block lists in every region
BlockListsEverywhere(t, region) == IsNukeable(t, resourceTypes)

\* whether the block of resource type t issues its list call in this region
\* (aws.go:149, 161, ..., 275-276)
BlockLists(t, region) ==
  /\ IsNukeable(t, resourceTypes)
  /\ (t = "ekscluster" => eksSupportedRegion(region))

\* one resource-type block: when the type is nukeable its list call is
\* issued; an error aborts, otherwise the type is appended with the
\* identifiers found (aws.go:147-286)
ListResourceType ==
  /\ pc = "listTypes"
  /\ lt <= Len(ResourceOrder)
  /\ LET t == ResourceOrder[lt]
         region == regions[li]
     IN  IF BlockLists(t, region)
         THEN /\ listCalls' = listCalls \cup {<<region, t>>}
              /\ \/ ListFails("list error")
                 \/ \E k \in 0..(IF t \in PopulatedTypes THEN MaxIds - IdsListed ELSE 0) :
                      /\ resourcesInRegion' =
                           Append(resourcesInRegion, [name |-> t, ids |-> Identifiers(k)])
                      /\ lt' = lt + 1
                      /\ UNCHANGED <<pc, cmdRet, account, li, inventory>>
         ELSE /\ lt' = lt + 1
              /\ UNCHANGED <<pc, cmdRet, account, li, resourcesInRegion, listCalls,
                             inventory>>
  /\ UNCHANGED <<splitVars, flagVars, gceVars, maxBatchSize, gateVars, awsFlagVars,
                 disabledDefaults, probeVars, regions, summary, nukeVars>>

\* the end of the loop body: a region with resources is stored (aws.go:288-291)
ListRegionEnd ==
  /\ pc = "listTypes"
  /\ lt > Len(ResourceOrder)
  /\ account' = IF Len(resourcesInRegion) > 0
                THEN MapPut(account, regions[li], resourcesInRegion)
                ELSE account
  /\ resourcesInRegion' = <<>>
  /\ lt' = 0
  /\ li' = li + 1
  /\ pc' = "GetAllResources"
  /\ UNCHANGED <<cmdRet, splitVars, flagVars, gceVars, maxBatchSize, gateVars, awsFlagVars,
                 disabledDefaults, probeVars, regions, listCalls, inventory, summary,
                 nukeVars>>

\* return &account, nil (aws.go:293; cli.go:246)
ListReturn ==
  /\ pc = "GetAllResources"
  /\ li > Len(regions)
  /\ inventory' = [isNil |-> FALSE, Resources |-> account]
  /\ pc' = "awsSummary"
  /\ UNCHANGED <<cmdRet, splitVars, flagVars, gceVars, maxBatchSize, gateVars, awsFlagVars,
                 disabledDefaults, probeVars, regions, account, li, lt,
                 resourcesInRegion, listCalls, summary, nukeVars>>

(***************************************************************************)
(* commands.awsNuke from the inventory to the gate (cli.go:252-289).       *)
(***************************************************************************)
\* faulty variant: only the first identifier of each resource type is printed
SummaryLinesFirstOnly(resourcesByRegion) ==
  UNION { { <<resourcesByRegion[r][e].name, resourcesByRegion[r][e].ids[1], r>> :
              e \in { x \in 1..Len(resourcesByRegion[r]) :
                        Len(resourcesByRegion[r][x].ids) > 0 } } :
          r \in DOMAIN resourcesByRegion }

\* the lines of the whole inventory (cli.go:259-265)
SummaryLines(resourcesByRegion) ==
  UNION { UNION { { <<resourcesByRegion[r][e].name, resourcesByRegion[r][e].ids[j], r>> :
                      j \in 1..Len(resourcesByRegion[r][e].ids) } :
                  e \in 1..Len(resourcesByRegion[r]) } :
          r \in DOMAIN resourcesByRegion }

\* an empty inventory ends the run with "Nothing to nuke"; otherwise every
\* resource is printed (cli.go:252-265)
AwsSummary ==
  /\ pc = "awsSummary"
  /\ IF DOMAIN inventory.Resources = {}
     THEN pc' = "done" /\ cmdRet' = "nil" /\ summary' = summary
     ELSE pc' = "awsGate" /\ cmdRet' = cmdRet
          /\ summary' = SummaryLines(inventory.Resources)
  /\ UNCHANGED <<splitVars, flagVars, gceVars, maxBatchSize, gateVars, awsFlagVars,
                 disabledDefaults, probeVars, regions, listVars, nukeVars>>

\* what the operator may type at the prompt
PromptInputs == {"nuke", "NUKE", "no", ""}

\* strings.ToLower on the inputs of the model
ToLower(s) == IF s = "NUKE" THEN "nuke" ELSE s

\* faulty variant: every answer is taken for a confirmation
confirmationPromptAny(typed) == TRUE

\* confirmationPrompt (cli.go:380-396): the error of the prompt, or whether
\* the lowered input is "nuke"
confirmationPrompt(typed) == ToLower(typed) = "nuke"

\* the seconds of the --force countdown (cli.go:280, cli.go:109)
Countdown == 10

\* without --force the operator is asked; only "nuke" goes on to
\* NukeAllResources (cli.go:267-277)
AwsPrompt ==
  /\ pc = "awsGate"
  /\ force' = FALSE
  /\ \/ /\ pc' = "done"
        /\ cmdRet' = "prompt error"
        /\ UNCHANGED <<proceed, input, ni>>
     \/ \E typed \in PromptInputs :
          /\ input' = typed
          /\ proceed' = confirmationPrompt(typed)
          /\ IF proceed'
             THEN pc' = "NukeAllResources" /\ ni' = 1 /\ cmdRet' = cmdRet
             ELSE pc' = "done" /\ cmdRet' = "nil" /\ ni' = ni
  /\ UNCHANGED <<splitVars, flagVars, gceVars, maxBatchSize, countdown, resourceTypes,
                 disabledDefaults, probeVars, regions, listVars, summary, ne, batches,
                 bi, deleteCalls, nukeRet>>

\* with --force the countdown starts (cli.go:278-280)
AwsForce ==
  /\ pc = "awsGate"
  /\ force' = TRUE
  /\ countdown' = Countdown
  /\ pc' = "awsCountdown"
  /\ UNCHANGED <<cmdRet, splitVars, flagVars, gceVars, maxBatchSize, input,
                 resourceTypes, proceed, disabledDefaults, probeVars, regions, listVars,
                 summary, nukeVars>>

\* one iteration of the countdown: a second of sleep (cli.go:280-283)
AwsCountdown ==
  /\ pc = "awsCountdown"
  /\ countdown > 0
  /\ countdown' = countdown - 1
  /\ UNCHANGED <<pc, cmdRet, splitVars, flagVars, gceVars, maxBatchSize, input,
                 awsFlagVars, disabledDefaults, probeVars, regions, listVars, summary,
                 nukeVars>>

\* the countdown is over: NukeAllResources is called (cli.go:285-286)
AwsCountdownDone ==
  /\ pc = "awsCountdown"
  /\ countdown = 0
  /\ pc' = "NukeAllResources"
  /\ ni' = 1
  /\ UNCHANGED <<cmdRet, splitVars, flagVars, gceVars, maxBatchSize, gateVars,
                 awsFlagVars, disabledDefaults, probeVars, regions, listVars, summary,
                 ne, batches, bi, deleteCalls, nukeRet>>

(***************************************************************************)
(* commands.gcpNuke from the instances to its end (cli.go:162-196).        *)
(***************************************************************************)
\* the lines gcpNuke prints: kind, name, region, zone (cli.go:174-177)
GcpSummaryLines(resources) ==
  { <<"gce-instance", resources[k].InstanceName, resources[k].RegionName,
      resources[k].Zone>> : k \in 1..Len(resources) }

\* an error of the listing is returned, no resource ends the run with
\* "Nothing to nuke", otherwise every resource is printed (cli.go:162-178);
\* the locals of GetAllGceInstances are gone, gcpNuke holds what it returned
GcpSummary ==
  /\ pc = "gceReturned"
  /\ IF gRet.err # "nil"
     THEN pc' = "done" /\ cmdRet' = gRet.err /\ summary' = summary
     ELSE IF Len(gRet.instances) = 0
          THEN pc' = "done" /\ cmdRet' = "nil" /\ summary' = summary
          ELSE pc' = "gcpGate" /\ cmdRet' = cmdRet
               /\ summary' = GcpSummaryLines(gRet.instances)
  /\ gApi' = <<>>
  /\ gTodo' = <<>>
  /\ gCur' = ""
  /\ gInstances' = NoInstances
  /\ UNCHANGED <<splitVars, flagVars, gRet, maxBatchSize, gateVars, awsFlagVars,
                 disabledDefaults, probeVars, regions, listVars, nukeVars>>

\* promptForConfirmationBeforeNuking(false): the operator is asked, and only
\* "nuke" in any case confirms (cli.go:116-128, 180-185)
GcpPrompt ==
  /\ pc = "gcpGate"
  /\ force' = FALSE
  /\ \/ /\ pc' = "done"
        /\ cmdRet' = "prompt error"
        /\ UNCHANGED <<proceed, input>>
     \/ \E typed \in PromptInputs :
          /\ input' = typed
          /\ proceed' = (ToLower(typed) = "nuke")
          /\ IF proceed'
             THEN pc' = "gcpNukeAllResources" /\ cmdRet' = cmdRet
             ELSE pc' = "done" /\ cmdRet' = "nil"
  /\ UNCHANGED <<splitVars, flagVars, gceVars, maxBatchSize, countdown, resourceTypes,
                 disabledDefaults, probeVars, regions, listVars, summary, nukeVars>>

\* promptForConfirmationBeforeNuking(true): the countdown starts (cli.go:107-110)
GcpForce ==
  /\ pc = "gcpGate"
  /\ force' = TRUE
  /\ countdown' = Countdown
  /\ pc' = "gcpCountdown"
  /\ UNCHANGED <<cmdRet, splitVars, flagVars, gceVars, maxBatchSize, input,
                 resourceTypes, proceed, disabledDefaults, probeVars, regions, listVars,
                 summary, nukeVars>>

\* one iteration of the countdown: a second of sleep (cli.go:109-112)
GcpCountdown ==
  /\ pc = "gcpCountdown"
  /\ countdown > 0
  /\ countdown' = countdown - 1
  /\ UNCHANGED <<pc, cmdRet, splitVars, flagVars, gceVars, maxBatchSize, input,
                 awsFlagVars, disabledDefaults, probeVars, regions, listVars, summary,
                 nukeVars>>

\* the countdown is over: the confirmation is true (cli.go:114-115)
GcpCountdownDone ==
  /\ pc = "gcpCountdown"
  /\ countdown = 0
  /\ proceed' = TRUE
  /\ pc' = "gcpNukeAllResources"
  /\ UNCHANGED <<cmdRet, splitVars, flagVars, gceVars, maxBatchSize, gateVars,
                 resourceTypes, force, disabledDefaults, probeVars, regions, listVars,
                 summary, nukeVars>>

\* the delete call of the k-th resource of gcpNuke and its outcome
GcpDeleteCall(resources, k, failed) ==
  [region |-> resources[k].RegionName, name |-> "gce-instance", i |-> 0,
   batch |-> <<resources[k].InstanceName>>,
   err |-> IF k \in failed THEN "delete failed" ELSE "nil", slept |-> 0]

\* ctx.NukeAllResources deletes every resource and returns the errors; any
\* error makes gcpNuke fail (cli.go:186-196)
GcpNukeAllResources ==
  /\ pc = "gcpNukeAllResources"
  /\ \E failed \in SUBSET (1..Len(gRet.instances)) :
       /\ deleteCalls' = [k \in 1..Len(gRet.instances) |->
                            GcpDeleteCall(gRet.instances, k, failed)]
       /\ nukeRet' = IF failed # {} THEN "nukeErrors" ELSE "nil"
       /\ cmdRet' = IF failed # {} THEN "Some resources failed to nuke." ELSE "nil"
  /\ pc' = "done"
  /\ UNCHANGED <<splitVars, flagVars, gceVars, maxBatchSize, gateVars, awsFlagVars,
                 disabledDefaults, probeVars, regions, listVars, summary, ni, ne,
                 batches, bi>>

NextGce ==
  \/ GcpValidateExcludedRegions
  \/ GcpParseDuration
  \/ GceAggregatedList
  \/ GceVisitInstance
  \/ GceReturn
  \/ GcpSummary
  \/ GcpPrompt
  \/ GcpForce
  \/ GcpCountdown
  \/ GcpCountdownDone
  \/ GcpNukeAllResources

SpecGce == InitGce /\ [][NextGce]_vars

(***************************************************************************)
(* aws.NukeAllResources (aws.go:330-371).                                  *)
(***************************************************************************)
\* the errors a delete call may return, besides nil
NukeErrors ==
  { "RequestLimitExceeded: Request limit exceeded.",
    "UnauthorizedOperation: You are not authorized to perform this operation." }

\* the words of an error message
ErrorWords(err) ==
  CASE err = "RequestLimitExceeded: Request limit exceeded."
         -> <<"RequestLimitExceeded", ":", "Request", "limit", "exceeded", ".">>
    [] err = "UnauthorizedOperation: You are not authorized to perform this operation."
         -> <<"UnauthorizedOperation", ":", "You", "are", "not", "authorized", "to",
              "perform", "this", "operation", ".">>
    [] OTHER -> <<>>

\* faulty variant: no error is taken for a rate-limit error
IsRequestLimitExceededNever(err) == FALSE

\* faulty variant: every error is taken for a rate-limit error
IsRequestLimitExceededAlways(err) == TRUE

\* strings.Contains(err.Error(), "RequestLimitExceeded") (aws.go:353)
IsRequestLimitExceeded(err) ==
  ListContainsElement(ErrorWords(err), "RequestLimitExceeded")

\* what would be a retry: the index stays at the batch that was rate-limited
AfterRateLimitSameBatch(i) == i

\* aws.go:356 with 349: `continue` runs the loop's post statement i++, so
\* the batch after the rate-limited one comes next
AfterRateLimit(i) == i + 1

\* faulty variant: the pause also follows the last batch
PauseAfterBatchAlways(i, n) == 10

\* aws.go:362-365: ten seconds of sleep unless the batch was the last one
PauseAfterBatch(i, n) == IF i # n - 1 THEN 10 ELSE 0

\* the resources awsNuke's inventory holds for NukeAllResources' region
NukeResourcesInRegion == MapGet(inventory.Resources, regions[ni])

\* NukeAllResources returns err, and awsNuke returns it (aws.go:338, 359,
\* 370; cli.go:274-276, 286-291)
NukeReturns(err) ==
  /\ nukeRet' = err
  /\ cmdRet' = err
  /\ pc' = "done"

\* the head of the loop over regions: a session is created and the region's
\* resources are looked up (aws.go:332-341)
NukeRegion ==
  /\ pc = "NukeAllResources"
  /\ ni <= Len(regions)
  /\ \/ /\ NukeReturns("session error")
        /\ UNCHANGED ne
     \/ /\ ne' = 1
        /\ pc' = "nukeResources"
        /\ UNCHANGED <<cmdRet, nukeRet>>
  /\ UNCHANGED <<splitVars, flagVars, gceVars, maxBatchSize, gateVars, awsFlagVars,
                 disabledDefaults, probeVars, regions, listVars, summary, ni, batches,
                 bi, deleteCalls>>

\* the loop over regions is over: return nil (aws.go:370)
NukeRegionsDone ==
  /\ pc = "NukeAllResources"
  /\ ni > Len(regions)
  /\ NukeReturns("nil")
  /\ UNCHANGED <<splitVars, flagVars, gceVars, maxBatchSize, gateVars, awsFlagVars,
                 disabledDefaults, probeVars, regions, listVars, summary, ni, ne,
                 batches, bi, deleteCalls>>

\* the head of the loop over the region's resources: the identifiers are
\* split into batches (aws.go:342-349)
NukeResources ==
  /\ pc = "nukeResources"
  /\ ne <= Len(NukeResourcesInRegion)
  /\ batches' = split(NukeResourcesInRegion[ne].ids,
                      MaxBatchSize(NukeResourcesInRegion[ne].name))
  /\ bi' = 0
  /\ pc' = "nukeBatches"
  /\ UNCHANGED <<cmdRet, splitVars, flagVars, gceVars, maxBatchSize, gateVars, awsFlagVars,
                 disabledDefaults, probeVars, regions, listVars, summary, ni, ne,
                 deleteCalls, nukeRet>>

\* faulty variant: the loop over regions does not move on to the next region
NukeResourcesDoneSameRegion ==
  /\ pc = "nukeResources"
  /\ ne > Len(NukeResourcesInRegion)
  /\ ne' = 0
  /\ pc' = "NukeAllResources"
  /\ UNCHANGED <<cmdRet, splitVars, flagVars, gceVars, maxBatchSize, gateVars, awsFlagVars,
                 disabledDefaults, probeVars, regions, listVars, summary, ni, batches,
                 bi, deleteCalls, nukeRet>>

\* the loop over the region's resources is over: the next region
NukeResourcesDone ==
  /\ pc = "nukeResources"
  /\ ne > Len(NukeResourcesInRegion)
  /\ ni' = ni + 1
  /\ ne' = 0
  /\ pc' = "NukeAllResources"
  /\ UNCHANGED <<cmdRet, splitVars, flagVars, gceVars, maxBatchSize, gateVars, awsFlagVars,
                 disabledDefaults, probeVars, regions, listVars, summary, batches, bi,
                 deleteCalls, nukeRet>>

\* the delete calls the record keeps: no run of NukeAllResources issues as
\* many, one call per batch and at most two empty batches besides
MaxCalls == MaxIds + 3

\* the record of delete calls with one more call
Recorded(call) ==
  IF Len(deleteCalls) < MaxCalls THEN Append(deleteCalls, call) ELSE deleteCalls

\* the record of one delete call: its region, resource type, batch index i
\* and batch, the error it returned and the seconds slept after it
DeleteCall(err, slept) ==
  [region |-> regions[ni], name |-> NukeResourcesInRegion[ne].name, i |-> bi,
   batch |-> batches[bi + 1], err |-> err, slept |-> slept]

\* one iteration of the loop over batches: the delete call, and what its
\* outcome does to the loop (aws.go:349-366)
NukeBatch ==
  /\ pc = "nukeBatches"
  /\ bi < Len(batches)
  /\ \E err \in NukeErrors \cup {"nil"} :
       IF err # "nil"
       THEN IF IsRequestLimitExceeded(err)
            THEN /\ deleteCalls' = Recorded(DeleteCall(err, 60))
                 /\ bi' = AfterRateLimit(bi)
                 /\ UNCHANGED <<pc, cmdRet, nukeRet>>
            ELSE /\ deleteCalls' = Recorded(DeleteCall(err, 0))
                 /\ NukeReturns(err)
                 /\ UNCHANGED bi
       ELSE /\ deleteCalls' = Recorded(DeleteCall(err, PauseAfterBatch(bi, Len(batches))))
            /\ bi' = bi + 1
            /\ UNCHANGED <<pc, cmdRet, nukeRet>>
  /\ UNCHANGED <<splitVars, flagVars, gceVars, maxBatchSize, gateVars, awsFlagVars,
                 disabledDefaults, probeVars, regions, listVars, summary, ni, ne,
                 batches>>

\* faulty variant: the identifiers of the resource type are taken out of the
\* inventory once its batches are through
NukeBatchesDoneConsuming ==
  /\ pc = "nukeBatches"
  /\ bi >= Len(batches)
  /\ ne' = ne + 1
  /\ batches' = <<>>
  /\ bi' = 0
  /\ pc' = "nukeResources"
  /\ inventory' = [inventory EXCEPT !.Resources[regions[ni]][ne].ids = <<>>]
  /\ UNCHANGED <<cmdRet, splitVars, flagVars, gceVars, maxBatchSize, gateVars, awsFlagVars,
                 disabledDefaults, probeVars, regions, account, li, lt,
                 resourcesInRegion, listCalls, summary, ni, deleteCalls, nukeRet>>

\* the loop over batches is over: the next resource type of the region
NukeBatchesDone ==
  /\ pc = "nukeBatches"
  /\ bi >= Len(batches)
  /\ ne' = ne + 1
  /\ batches' = <<>>
  /\ bi' = 0
  /\ pc' = "nukeResources"
  /\ UNCHANGED <<cmdRet, splitVars, flagVars, gceVars, maxBatchSize, gateVars, awsFlagVars,
                 disabledDefaults, probeVars, regions, listVars, summary, ni,
                 deleteCalls, nukeRet>>

NextAws ==
  \/ AwsListResourceTypes
  \/ AwsValidateResourceTypes
  \/ RetryDescribeRegions
  \/ RetryDescribeRegionsExhausted
  \/ AwsValidateExcludedRegions
  \/ AwsParseDuration
  \/ ListRegion
  \/ ListResourceType
  \/ ListRegionEnd
  \/ ListReturn
  \/ AwsSummary
  \/ AwsPrompt
  \/ AwsForce
  \/ AwsCountdown
  \/ AwsCountdownDone
  \/ NukeRegion
  \/ NukeRegionsDone
  \/ NukeResources
  \/ NukeResourcesDone
  \/ NukeBatch
  \/ NukeBatchesDone

Spec == InitAws /\ [][NextAws]_vars

(***************************************************************************)
(* awsNuke with a NukeAllResources that keeps running: every delete call   *)
(* returns and the sequential code goes on to its next statement.          *)
(***************************************************************************)
\* the steps of NukeAllResources
NukeSteps ==
  \/ NukeRegion
  \/ NukeRegionsDone
  \/ NukeResources
  \/ NukeResourcesDone
  \/ NukeBatch
  \/ NukeBatchesDone

\* the batch sizes are 1, and -2 for ec2
InitLive ==
  /\ InitAws
  /\ maxBatchSize["asg"] = 1

SpecLive == InitLive /\ [][NextAws]_vars /\ WF_vars(NukeSteps)

(***************************************************************************)
(* aws.GetEnabledRegions on its own, for accounts that have disabled some  *)
(* of the default regions.                                                 *)
(***************************************************************************)
\* the default regions an account may have disabled: none, one, all but
\* us-east-1, all
RegionAccounts == { {}, {"sa-east-1"}, OptInSet \ {"us-east-1"}, OptInSet }

InitRegions ==
  /\ pc = "GetEnabledRegions"
  /\ cmdRet = "none"
  /\ SplitIdle
  /\ FlagsUnread
  /\ GceIdle
  /\ AwsIdle
  /\ maxBatchSize = <<>>
  /\ disabledDefaults \in RegionAccounts

NextRegions ==
  \/ RetryDescribeRegions
  \/ RetryDescribeRegionsExhausted

SpecRegions == InitRegions /\ [][NextRegions]_vars

(***************************************************************************)
(* Either command: awsNuke or gcpNuke.                                     *)
(***************************************************************************)
InitNuke == InitAws \/ InitGce

NextNuke == NextAws \/ NextGce

SpecNuke == InitNuke /\ [][NextNuke]_vars

(***************************************************************************)
(* Properties.                                                             *)
(***************************************************************************)
\* every batch but the last holds exactly n identifiers, the last at most n
\* and none is empty
BatchesOfSize(chunks, n) ==
  \A k \in 1..Len(chunks) :
    /\ Len(chunks[k]) >= 1
    /\ Len(chunks[k]) <= n
    /\ (k < Len(chunks) => Len(chunks[k]) = n)

\* C8: for every identifier list ids and every limit n > 0, the batches of
\* split(ids, n) concatenated in order are exactly ids, and split(ids, 0) is
\* the single batch [ids].
C8_SplitConcatenates ==
  pc = "splitDone" =>
    /\ (sLimit > 0 => Concat(sChunks) = sIdentifiers)
    /\ (sLimit = 0 => sChunks = <<sIdentifiers>>)

\* C8 happens: a positive limit cut a list into full batches and a short one
C8_Witness ==
  /\ pc = "splitDone"
  /\ sLimit > 1
  /\ Len(sChunks) >= 2
  /\ Len(sChunks[Len(sChunks)]) < sLimit

\* C9 as stated: for every limit n <= 0, negative as well as zero,
\* split(ids, n) is a single batch holding all of ids.
C9_NonPositiveLimitSingleBatch ==
  (pc = "splitDone" /\ sLimit <= 0) => sChunks = <<sIdentifiers>>

\* C9 amended: limit 0 gives the single batch [ids]; a negative limit n
\* batches by its absolute value: batches of exactly -n identifiers, the last
\* possibly shorter, none empty, whose concatenation is ids.
C9_NegativeLimitIsAbsolute ==
  (pc = "splitDone" /\ sLimit <= 0) =>
    IF sLimit = 0
    THEN sChunks = <<sIdentifiers>>
    ELSE /\ Concat(sChunks) = sIdentifiers
         /\ BatchesOfSize(sChunks, 0 - sLimit)

\* C9 happens: a negative limit cut a list into more than one batch
C9_Witness ==
  /\ pc = "splitDone"
  /\ sLimit < 0
  /\ Len(sChunks) >= 2

\* the instance named n is in the list GetAllGceInstances returned
GceListed(n) ==
  \E k \in 1..Len(gRet.instances) : gRet.instances[k].InstanceName = n

\* GetAllGceInstances returned a list and no error
GceListedOk == gRet.returned /\ gRet.err = "nil"

\* the region of an instance the provider returned
GceRegionOf(apiInstance) == regionFromZone(zoneFromUrl(apiInstance.Zone).zone).region

\* the instant an instance the provider returned was created at
GceCreated(apiInstance) == TimeParse(apiInstance.CreationTimestamp).t

\* C4: whatever the excluded regions and the instances the provider returns,
\* the list GetAllGceInstances returns holds no instance whose region is in
\* the excluded-region set.
C4_NoExcludedRegionListed ==
  \A k \in 1..Len(gRet.instances) :
    ~ListContainsElement(excludedRegions, gRet.instances[k].RegionName)

\* C6: an instance with DeletionProtection set is never in the list
\* GetAllGceInstances builds or returns, whatever its creation time and
\* whatever the cutoff.
C6_ProtectedNeverListed ==
  \A k \in 1..Len(gApi) :
    gApi[k].DeletionProtection =>
      /\ ~GceListed(gApi[k].Name)
      /\ \A j \in 1..Len(gInstances) : gInstances[j].InstanceName # gApi[k].Name

\* C6 happens: a list was returned that holds an instance, while a protected
\* instance created before the cutoff was left out
C6_Witness ==
  /\ GceListedOk
  /\ Len(gRet.instances) >= 1
  /\ \E k \in 1..Len(gApi) :
       /\ gApi[k].DeletionProtection
       /\ gApi[k].CreationTimestamp.valid
       /\ GceCreated(gApi[k]) < excludeAfter

\* C7: the cutoff is the run's start time minus the operator's duration, and
\* the age filter is strict on it: an unprotected instance of a region that
\* is not excluded is left out exactly when it was created strictly after the
\* cutoff, so one created at or before the cutoff is listed (cutoff now-24h:
\* created 1h ago is left out, created 48h ago is listed).
C7_AgeFilterStrictOnCutoff ==
  /\ pc \in {"GetAllGceInstances", "gceLoop", "gceReturned"} =>
       /\ ParseDuration(olderThan).ok
       /\ excludeAfter = Now - ParseDuration(olderThan).d
  /\ GceListedOk =>
       \A k \in 1..Len(gApi) :
         ( /\ ~gApi[k].DeletionProtection
           /\ ~ListContainsElement(excludedRegions, GceRegionOf(gApi[k])) ) =>
           (GceListed(gApi[k].Name) <=> GceCreated(gApi[k]) <= excludeAfter)

\* C7 happens: with --older-than 24h an instance created 1h ago was left out
\* and one created 48h ago was listed
C7_Witness ==
  /\ GceListedOk
  /\ olderThan = <<24, "h">>
  /\ excludeAfter = Now - 24 * Hour
  /\ \E k \in 1..Len(gApi) :
       /\ ~gApi[k].DeletionProtection
       /\ GceCreated(gApi[k]) = Now - Hour
       /\ ~GceListed(gApi[k].Name)
  /\ \E k \in 1..Len(gApi) :
       /\ ~gApi[k].DeletionProtection
       /\ GceCreated(gApi[k]) = Now - 48 * Hour
       /\ GceListed(gApi[k].Name)

(***************************************************************************)
(* Properties of NukeAllResources and GetAllResources.                     *)
(***************************************************************************)
\* the error is the provider's rate-limit error
RateLimitError(err) == err = "RequestLimitExceeded: Request limit exceeded."

\* the error is any other error: terminal
TerminalError(err) == err # "nil" /\ ~RateLimitError(err)

\* the delete calls issued for resource type name of region r, in order
CallsFor(r, name) ==
  SelectSeq(deleteCalls, LAMBDA c : c.region = r /\ c.name = name)

\* the batches of a list of delete calls
BatchesOf(calls) == [k \in 1..Len(calls) |-> calls[k].batch]

\* C1: whenever the delete call for batch i of a resource type returns a
\* rate-limit error, the next delete call is for the same batch i of the same
\* resource type, and NukeAllResources does not return while the
\* rate-limited batch is the last one it called.
C1_RateLimitedBatchIsRetried ==
  \A k \in 1..Len(deleteCalls) :
    RateLimitError(deleteCalls[k].err) =>
      IF k < Len(deleteCalls)
      THEN /\ deleteCalls[k + 1].region = deleteCalls[k].region
           /\ deleteCalls[k + 1].name = deleteCalls[k].name
           /\ deleteCalls[k + 1].i = deleteCalls[k].i
      ELSE nukeRet = "none"

C3_FailureIffTerminalDeleteError ==
  nukeRet # "none" =>
    (nukeRet # "nil" <=> \E k \in 1..Len(deleteCalls) : TerminalError(deleteCalls[k].err))

\* C3 amended: NukeAllResources reports failure if and only if a delete call
\* returned a non-rate-limit error or the session of a region could not be
\* created; the error of a failed delete call is the one returned, awsNuke
\* returns what NukeAllResources returns, and a rate-limit error is never
\* the result.
C3_FailureIffTerminalOrSessionError ==
  nukeRet # "none" =>
    /\ nukeRet # "nil" <=>
         \/ \E k \in 1..Len(deleteCalls) : TerminalError(deleteCalls[k].err)
         \/ nukeRet = "session error"
    /\ \A k \in 1..Len(deleteCalls) :
         TerminalError(deleteCalls[k].err) => nukeRet = deleteCalls[k].err
    /\ ~RateLimitError(nukeRet)
    /\ cmdRet = nukeRet

\* C3 happens: a run with a rate-limit error and no other error returned nil
C3_Witness ==
  /\ nukeRet = "nil"
  /\ cmdRet = "nil"
  /\ \E k \in 1..Len(deleteCalls) : RateLimitError(deleteCalls[k].err)

\* C5: for every excluded region, GetAllResources issues no list call and
\* creates no inventory entry, and NukeAllResources issues no delete call
\* for it, whatever the order of the regions and the resource-type filter.
C5_ExcludedRegionUntouched ==
  \A x \in 1..Len(excludedRegions) :
    /\ \A c \in listCalls : c[1] # excludedRegions[x]
    /\ excludedRegions[x] \notin DOMAIN account
    /\ excludedRegions[x] \notin DOMAIN inventory.Resources
    /\ \A k \in 1..Len(deleteCalls) : deleteCalls[k].region # excludedRegions[x]

\* C5 happens: with a region excluded, the other region's resources were
\* listed and deleted and the run went through every region
C5_Witness ==
  /\ Len(excludedRegions) = 1
  /\ listCalls # {}
  /\ Len(deleteCalls) >= 1
  /\ nukeRet = "nil"

\* C10: for a resource type with k identifiers and maximum batch size n > 0
\* whose delete calls all succeed, a finished run has issued exactly
\* ceil(k/n) delete calls for it, in identifier order, each with at most n
\* identifiers and all but the last with exactly n.
C10_BatchesOfDeclaredSize ==
  nukeRet = "nil" =>
    \A r \in DOMAIN inventory.Resources :
      \A e \in 1..Len(inventory.Resources[r]) :
        LET res == inventory.Resources[r][e]
            n == MaxBatchSize(res.name)
            calls == CallsFor(r, res.name)
        IN  ( /\ n > 0
              /\ \A k \in 1..Len(calls) : calls[k].err = "nil" ) =>
              /\ Len(calls) = (Len(res.ids) + n - 1) \div n
              /\ Concat(BatchesOf(calls)) = res.ids
              /\ BatchesOfSize(BatchesOf(calls), n)

\* C10 happens: three identifiers with batch size 2 were deleted in a batch
\* of two and a batch of one
C10_Witness ==
  /\ nukeRet = "nil"
  /\ \E r \in DOMAIN inventory.Resources :
       \E e \in 1..Len(inventory.Resources[r]) :
         LET res == inventory.Resources[r][e]
             calls == CallsFor(r, res.name)
         IN  /\ MaxBatchSize(res.name) = 2
             /\ Len(res.ids) = 3
             /\ Len(calls) = 2
             /\ \A k \in 1..Len(calls) : calls[k].err = "nil"
             /\ Len(calls[1].batch) = 2
             /\ Len(calls[2].batch) = 1

\* the position of x in the list seq
IndexOf(seq, x) == CHOOSE k \in 1..Len(seq) : seq[k] = x

\* C11: when a list call fails, GetAllResources returns the error with no
\* inventory at all (nil), not the regions and types listed before the
\* failure, and the failing list call is the last one issued: no list call
\* exists for a later resource type of the region or for a later region.
C11_ListFailureReturnsNoInventory ==
  cmdRet = "list error" =>
    /\ inventory.isNil
    /\ DOMAIN inventory.Resources = {}
    /\ summary = {}
    /\ <<regions[li], ResourceOrder[lt]>> \in listCalls
    /\ \A c \in listCalls :
         \/ IndexOf(regions, c[1]) < li
         \/ IndexOf(regions, c[1]) = li /\ IndexOf(ResourceOrder, c[2]) <= lt

\* a list call failed after a whole region and one more type had been listed
C11_Witness ==
  /\ cmdRet = "list error"
  /\ DOMAIN account # {}
  /\ resourcesInRegion # <<>>
  /\ Cardinality(listCalls) > 2

\* the results awsNuke returns for a configuration error
ConfigurationErrors == {"Invalid resourceTypes", "InvalidFlagError", "invalid duration"}

\* awsNuke ended with a discovery error: region enumeration, a session of the
\* listing or a list call failed
DiscoveryError ==
  \/ cmdRet \in {"could not find any enabled regions", "list error"}
  \/ cmdRet = "session error" /\ nukeRet = "none"

\* the flags read so far are valid: registered type names or "all", enabled
\* regions, a Go duration
ConfigurationValid ==
  /\ \A k \in 1..Len(resourceTypes) : resourceTypes[k] \in ResourceTypeNames \cup {"all"}
  /\ \A k \in 1..Len(excludedRegions) :
       \E j \in 1..Len(regions) : regions[j] = excludedRegions[k]
  /\ olderThan[2] \in {"s", "m", "h"}

\* C12: a run of awsNuke that ends with a configuration error or a discovery
\* error has issued no delete call; a delete call is issued only in a run
\* whose flags were all valid and whose inventory was built.
C12_NoDeleteOnConfigOrDiscoveryError ==
  /\ (cmdRet \in ConfigurationErrors \/ DiscoveryError) => deleteCalls = <<>>
  /\ deleteCalls # <<>> => (ConfigurationValid /\ ~inventory.isNil)

\* awsNuke ended with an invalid duration after the regions were enumerated
C12_Witness ==
  /\ pc = "done"
  /\ cmdRet = "invalid duration"
  /\ regions # <<>>
  /\ deleteCalls = <<>>

\* the filter holds a name that is neither "all" nor one of ListResourceTypes
FilterHasUnregisteredName ==
  \E k \in 1..Len(resourceTypes) :
    /\ resourceTypes[k] # "all"
    /\ \A j \in 1..Len(ListResourceTypes) : ListResourceTypes[j] # resourceTypes[k]

\* C13: when the resource-type filter holds a name that is neither a
\* registered type name nor "all", awsNuke returns a fatal error before any
\* region is contacted: no region-enumeration probe, no list call and no
\* delete call happens in that run.
C13_UnregisteredTypeFailsBeforeRegions ==
  FilterHasUnregisteredName =>
    /\ pc = "done"
    /\ cmdRet = "Invalid resourceTypes"
    /\ probes = 0
    /\ regions = <<>>
    /\ listCalls = {}
    /\ deleteCalls = <<>>

\* awsNuke ended on the filter ec2, bogus
C13_Witness ==
  /\ resourceTypes = <<"ec2", "bogus">>
  /\ pc = "done"
  /\ cmdRet = "Invalid resourceTypes"

(***************************************************************************)
(* Properties of the confirmation gate.                                    *)
(***************************************************************************)
\* the command is in, or past, its call of NukeAllResources
NukeCalled ==
  \/ pc \in {"NukeAllResources", "nukeResources", "nukeBatches", "gcpNukeAllResources"}
  \/ nukeRet # "none"
  \/ deleteCalls # <<>>

\* the operator answered the prompt with nuke, in upper or lower case
AnsweredNuke == ~force /\ input \in {"nuke", "NUKE"}

\* --force was set and the countdown ran to its end
ForcedAfterCountdown == force /\ input = NoInput /\ countdown = 0

\* C14: in awsNuke and gcpNuke, NukeAllResources is called and a delete call
\* is issued only after the operator answered the prompt with "nuke"
\* (case-insensitive), or --force was set and the countdown completed; with
\* any other answer, or a prompt error, no delete call is ever issued.
C14_DeleteOnlyAfterGate ==
  /\ NukeCalled => (AnsweredNuke \/ ForcedAfterCountdown)
  /\ cmdRet = "prompt error" => deleteCalls = <<>>
  /\ (~force /\ input \in {"no", ""}) => (pc = "done" /\ deleteCalls = <<>>)

\* the operator typed NUKE and a delete call followed
C14_Witness ==
  /\ ~force
  /\ input = "NUKE"
  /\ deleteCalls # <<>>

\* C15: every identifier awsNuke passes to a delete call was printed in the
\* summary before the gate, with the same resource type and region: nothing
\* is deleted that was not listed to the operator first.
C15_DeletedWasSummarised ==
  \A k \in 1..Len(deleteCalls) :
    \A j \in 1..Len(deleteCalls[k].batch) :
      <<deleteCalls[k].name, deleteCalls[k].batch[j], deleteCalls[k].region>> \in summary

\* a delete call took a batch of two identifiers of a summary of three lines
C15_Witness ==
  /\ Cardinality(summary) >= 3
  /\ \E k \in 1..Len(deleteCalls) : Len(deleteCalls[k].batch) = 2

\* C16: in every inventory GetAllResources returns, every resource-type entry
\* of a region holds at least one identifier and every region present holds
\* at least one entry.
C16_NoEmptyEntryNoEmptyRegion ==
  ~inventory.isNil =>
    \A r \in DOMAIN inventory.Resources :
      /\ Len(inventory.Resources[r]) >= 1
      /\ \A e \in 1..Len(inventory.Resources[r]) :
           Len(inventory.Resources[r][e].ids) >= 1

(***************************************************************************)
(* Properties of the order of resource types.                              *)
(***************************************************************************)
\* the curated order: auto-scaling groups, launch configurations, load
\* balancers, load balancers v2, EC2 instances, EBS volumes, elastic IPs,
\* AMIs, snapshots, ECS services, EKS clusters
CuratedOrder ==
  <<"asg", "lc", "elb", "elbv2", "ec2", "ebs", "eip", "ami", "snap", "ecsserv",
    "ekscluster">>

\* the place of every resource type in the curated order
CuratedPlaces ==
  [name \in {CuratedOrder[k] : k \in 1..Len(CuratedOrder)} |->
     CHOOSE k \in 1..Len(CuratedOrder) : CuratedOrder[k] = name]

CuratedIndex(name) == CuratedPlaces[name]

\* the resource types of a list of entries follow the curated order: each
\* entry comes later in it than the entry before
InCuratedOrder(resources) ==
  \A a \in 1..(Len(resources) - 1) :
    CuratedIndex(resources[a].name) < CuratedIndex(resources[a + 1].name)

\* every batch of the entry of region r has had its delete call
AllBatchesAttempted(r, entry) ==
  Len(CallsFor(r, entry.name)) = Len(split(entry.ids, MaxBatchSize(entry.name)))

\* C17: within every region the resource types are listed, and later deleted,
\* in the curated order, whatever the order of names in the filter: a delete
\* call for a resource type is issued only when every batch of all earlier
\* resource types of the region has been attempted.  Every delete call is
\* the latest one in the state it was issued in, so the order is stated for
\* the latest call against the one before it and the entries before its own.
C17_CuratedOrderKept ==
  /\ InCuratedOrder(resourcesInRegion)
  /\ \A r \in DOMAIN inventory.Resources : InCuratedOrder(inventory.Resources[r])
  /\ deleteCalls # <<>> =>
       LET n == Len(deleteCalls)
           last == deleteCalls[n]
           entries == inventory.Resources[last.region]
       IN  /\ (n > 1 /\ deleteCalls[n - 1].region = last.region) =>
                 CuratedIndex(deleteCalls[n - 1].name) <= CuratedIndex(last.name)
           /\ \A e \in 1..Len(entries) :
                 CuratedIndex(entries[e].name) < CuratedIndex(last.name)
                   => AllBatchesAttempted(last.region, entries[e])

\* with the filter ekscluster, asg the auto-scaling groups of a region were
\* deleted before its EKS clusters
C17_Witness ==
  /\ resourceTypes = <<"ekscluster", "asg">>
  /\ \E k, l \in 1..Len(deleteCalls) :
       /\ k < l
       /\ deleteCalls[k].region = deleteCalls[l].region
       /\ deleteCalls[k].name = "asg"
       /\ deleteCalls[l].name = "ekscluster"

(***************************************************************************)
(* Properties of region enumeration.                                       *)
(***************************************************************************)
\* C18: region enumeration fails only when every candidate of the default
\* list fails: if at least one candidate answers the describe-regions call,
\* enumeration succeeds, whatever the random choices.
C18_FailsOnlyWhenEveryCandidateFails ==
  cmdRet = "could not find any enabled regions" => disabledDefaults = OptInSet

(***************************************************************************)
(* Properties of the resource-type filter.                                 *)
(***************************************************************************)
\* the filter enables resource type t: it is empty, holds "all" or holds t
FilterEnables(t) ==
  \/ resourceTypes = <<>>
  \/ \E k \in 1..Len(resourceTypes) : resourceTypes[k] \in {"all", t}

\* the regions GetAllResources has gone through that are not excluded
ListedRegions ==
  { regions[k] : k \in { j \in 1..Len(regions) :
                           \A x \in 1..Len(excludedRegions) : excludedRegions[x] # regions[j] } }

\* no list call and no inventory entry exists for a type the filter leaves out
OnlyEnabledTypesListed ==
  /\ \A c \in listCalls : FilterEnables(c[2])
  /\ \A e \in 1..Len(resourcesInRegion) : FilterEnables(resourcesInRegion[e].name)
  /\ \A r \in DOMAIN inventory.Resources :
       \A e \in 1..Len(inventory.Resources[r]) :
         FilterEnables(inventory.Resources[r][e].name)

\* C19 as stated: once GetAllResources has returned, the list operation of a
\* resource type was invoked in a region that is not excluded if and only if
\* the filter is empty, holds "all" or holds the type's name.
C19_ListedIffEnabled ==
  /\ OnlyEnabledTypesListed
  /\ ~inventory.isNil =>
       \A r \in ListedRegions : \A t \in ResourceTypeNames :
         <<r, t>> \in listCalls <=> FilterEnables(t)

\* C19 amended: the list operation of a resource type was invoked in a region
\* that is not excluded if and only if the filter enables the type and, for
\* EKS clusters, the region supports EKS; no list call and no inventory entry
\* exists for a type the filter leaves out.
C19_ListedIffEnabledAndSupported ==
  /\ OnlyEnabledTypesListed
  /\ ~inventory.isNil =>
       \A r \in ListedRegions : \A t \in ResourceTypeNames :
         <<r, t>> \in listCalls <=>
           (FilterEnables(t) /\ (t = "ekscluster" => eksSupportedRegion(r)))

\* with the filter ec2, GetAllResources returned after listing ec2 in both
\* regions and nothing else
C19_Witness ==
  /\ resourceTypes = <<"ec2">>
  /\ ~inventory.isNil
  /\ listCalls = {<<"us-east-1", "ec2">>, <<"sa-east-1", "ec2">>}
  /\ DOMAIN inventory.Resources = {"us-east-1", "sa-east-1"}

(***************************************************************************)
(* Properties of the pauses of NukeAllResources.                           *)
(***************************************************************************)
\* the number of batches of the resource type a delete call belongs to
BatchCount(c) ==
  LET entries == inventory.Resources[c.region]
      e == CHOOSE x \in 1..Len(entries) : entries[x].name = c.name
  IN  Len(split(entries[e].ids, MaxBatchSize(c.name)))

\* the delete call after call k is for the next batch of the same resource type
NextBatchFollows(k) ==
  /\ k < Len(deleteCalls)
  /\ deleteCalls[k + 1].region = deleteCalls[k].region
  /\ deleteCalls[k + 1].name = deleteCalls[k].name

RegionListed(r) ==
  \E k \in 1..Len(regions) :
    /\ regions[k] = r
    /\ k < li \/ ~inventory.isNil
    /\ \A x \in 1..Len(excludedRegions) : excludedRegions[x] # r

\* C21: in a region for which eksSupportedRegion is false, GetAllResources
\* issues no list call for EKS clusters, adds no entry for them and does not
\* fail because of them; the other resource types the filter enables are
\* still listed in that region.
C21_UnsupportedTypeSkipped ==
  \A r \in {"us-east-1", "sa-east-1"} :
    ~eksSupportedRegion(r) =>
      /\ <<r, "ekscluster">> \notin listCalls
      /\ \A e \in 1..Len(MapGet(account, r)) : account[r][e].name # "ekscluster"
      /\ \A e \in 1..Len(MapGet(inventory.Resources, r)) :
           inventory.Resources[r][e].name # "ekscluster"
      /\ (li \in 1..Len(regions) /\ regions[li] = r) =>
           /\ \A e \in 1..Len(resourcesInRegion) : resourcesInRegion[e].name # "ekscluster"
           /\ cmdRet = "list error" => ResourceOrder[lt] # "ekscluster"
      /\ RegionListed(r) =>
           \A t \in ResourceTypeNames \ {"ekscluster"} :
             FilterEnables(t) => <<r, t>> \in listCalls

\* with the filter ekscluster, asg the region sa-east-1 was listed: its
\* auto-scaling groups are in the inventory and no EKS list call was made
C21_Witness ==
  /\ resourceTypes = <<"ekscluster", "asg">>
  /\ ~inventory.isNil
  /\ "sa-east-1" \in DOMAIN inventory.Resources
  /\ <<"sa-east-1", "asg">> \in listCalls
  /\ <<"us-east-1", "ekscluster">> \in listCalls

(***************************************************************************)
(* Properties of the configuration errors of awsNuke.                      *)
(***************************************************************************)
\* --exclude-region names a region that is not among the enabled ones
ExcludesUnknownRegion ==
  \E k \in 1..Len(excludedRegions) :
    \A j \in 1..Len(regions) : regions[j] # excludedRegions[k]

\* --older-than was read and is no Go duration
DurationUnparsable == olderThan # NoDuration /\ olderThan[2] \notin {"s", "m", "h"}

\* C22: in awsNuke, an excluded region that is not among the enabled regions
\* and a duration string that does not parse are both fatal before
\* discovery: the run returns an error without any list call of any
\* resource type.
C22_BadRegionOrDurationFatalBeforeListing ==
  /\ ExcludesUnknownRegion =>
       /\ pc = "done"
       /\ cmdRet = "InvalidFlagError"
       /\ listCalls = {}
       /\ inventory.isNil
  /\ DurationUnparsable =>
       /\ pc = "done"
       /\ cmdRet = "invalid duration"
       /\ listCalls = {}
       /\ inventory.isNil

\* awsNuke ended on the excluded region mars-1
C22_Witness ==
  /\ excludedRegions = <<"mars-1">>
  /\ regions # <<>>
  /\ pc = "done"
  /\ cmdRet = "InvalidFlagError"

(***************************************************************************)
(* Properties of what NukeAllResources writes.                             *)
(***************************************************************************)
\* the positions of awsNuke inside NukeAllResources
NukePositions == {"NukeAllResources", "nukeResources", "nukeBatches"}

\* a step taken inside NukeAllResources keeps everything but its own loop
\* positions, the calls it issues and the result it returns
NukeStepKeepsInventory ==
  pc \in NukePositions =>
    /\ inventory' = inventory
    /\ regions' = regions
    /\ UNCHANGED <<account, summary, listCalls, flagVars, awsFlagVars, gateVars>>

\* C23: NukeAllResources leaves the inventory unchanged: no step of it,
\* whatever the outcome of a delete call, changes the regions, the
\* resource-type entries or the identifier lists of the inventory, or
\* anything else of awsNuke but its own loop positions, the calls it issues
\* and the result it returns.
C23_InventoryUnchanged == [][NukeStepKeepsInventory]_vars

\* NukeAllResources returned after delete calls on an inventory of two regions
C23_Witness ==
  /\ nukeRet # "none"
  /\ deleteCalls # <<>>
  /\ DOMAIN inventory.Resources = {"us-east-1", "sa-east-1"}

(***************************************************************************)


(* Properties of the termination of NukeAllResources.                      *)
(***************************************************************************)
\* C24: when every delete call returns, NukeAllResources eventually returns:
\* once called it goes through its regions, resource types and batches and
\* hands back its result, also past batches answered with a rate-limit
\* error.
C24_NukeAllResourcesReturns ==
  (pc = "NukeAllResources" /\ ni = 1) ~> (nukeRet # "none")

\* NukeAllResources returned nil after a delete call was answered with a
\* rate-limit error
C24_Witness ==
  /\ nukeRet = "nil"
  /\ \E k \in 1..Len(deleteCalls) : RateLimitError(deleteCalls[k].err)

(***************************************************************************)
(* Properties of what a successful run has deleted.                        *)
(***************************************************************************)
\* identifier id of resource type name of region r was in a delete call that
\* returned no error
DeletedOk(r, name, id) ==
  \E k \in 1..Len(deleteCalls) :
    /\ deleteCalls[k].region = r
    /\ deleteCalls[k].name = name
    /\ deleteCalls[k].err = "nil"
    /\ \E j \in 1..Len(deleteCalls[k].batch) : deleteCalls[k].batch[j] = id

\* C25: whenever NukeAllResources returns nil, every identifier of every
\* resource type of every region of the inventory was passed to a delete
\* call that returned no error.
C25_SuccessMeansAllDeleted ==
  nukeRet = "nil" =>
    \A r \in DOMAIN inventory.Resources :
      \A e \in 1..Len(inventory.Resources[r]) :
        \A j \in 1..Len(inventory.Resources[r][e].ids) :
          DeletedOk(r, inventory.Resources[r][e].name, inventory.Resources[r][e].ids[j])

\* C26: NukeAllResources never issues a delete call with an empty batch of
\* identifiers, for any inventory entry and any declared maximum batch size.
C26_NoEmptyBatchDeleted ==
  \A k \in 1..Len(deleteCalls) : Len(deleteCalls[k].batch) >= 1

\* GetAllResources returned an inventory without a single identifier
NothingListed ==
  /\ ~inventory.isNil
  /\ \A r \in DOMAIN inventory.Resources :
       \A e \in 1..Len(inventory.Resources[r]) : inventory.Resources[r][e].ids = <<>>

\* C27: when every list call returned zero identifiers, awsNuke ends with
\* "nothing to nuke": once past the check of the inventory it has returned
\* nil, without a prompt, a countdown or a delete call.
C27_NothingToNukeEndsRun ==
  (NothingListed /\ pc # "awsSummary") =>
    /\ pc = "done"
    /\ cmdRet = "nil"
    /\ input = NoInput
    /\ ~force
    /\ countdown = 0
    /\ deleteCalls = <<>>

====
